---------------------------- MODULE Spec2Model ----------------------------
(***************************************************************************)
(* fogfish/typestep: the compiler of a typed pipeline (duct morphism) into  *)
(* an AWS Step Functions chain plus the EventBridge rule that triggers it.  *)
(*                                                                         *)
(* The model holds the private builder typeStep (src/typestep.go:146-154),  *)
(* the pipeline algebra From/Join/Lift/LiftP/Wrap/Unit/ToQueue/ToEventBus   *)
(* (src/typestep.go:45-119) and the visitor callbacks                      *)
(* (src/typestep.go:184-376).                                              *)
(*                                                                         *)
(* Strings are sequences of symbols, so that Go's string concatenation is  *)
(* sequence concatenation: "Map"+uuid is <<"Map">> \o uuid.  The AWS CDK    *)
(* constructors record the construct they are asked for; they panic when   *)
(* the scope already holds a construct of that identifier and when a       *)
(* required argument is nil.  Construct identifiers are unique within a    *)
(* scope, hence one lambda is bound at most once in a pipeline.            *)
(***************************************************************************)
EXTENDS Integers, Sequences, FiniteSets, TLC

VARIABLES
    DeadLetterQueue,  \* typeStep.DeadLetterQueue: "nil" or a queue
    bus,              \* typeStep.bus: "nil" or the captured event bus
    eventPattern,     \* typeStep.eventPattern: NoPattern or [DetailType |-> <<..>>]
    args,             \* typeStep.args: the input path of the next state
    stack,            \* typeStep.stack: one chain per open nesting level
    names,            \* typeStep.names: accumulated identifiers per level
    machines,         \* state machines created in the construct scope
    rules,            \* event rules created in the construct scope
    err,              \* the error (or runtime panic) of the last callback
    m,                \* the morphism being composed
    todo,             \* callbacks m.Apply still has to make
    pc,               \* "build" | "walk" | "done" | "panic" | "direct"
    hist,             \* invocations and callbacks made so far, in order
    props             \* the TypeStepProps NewTypeStep was given

ts   == <<DeadLetterQueue, bus, eventPattern, args, stack, names, machines, rules>>
vars == <<DeadLetterQueue, bus, eventPattern, args, stack, names, machines, rules,
          err, m, todo, pc, hist, props>>

----------------------------------------------------------------------------
(* Bounds of the model *)

\* compositions applied on top of From before the pipeline is compiled
MaxOps == 5
\* largest concurrency handed to LiftP
MaxConc == 2
\* callbacks a direct driver of the visitor makes
MaxCalls == 3
\* invocations of StateMachine on one TypeStep value
MaxRuns == 2

----------------------------------------------------------------------------
(* Values *)

NIL == "nil"

\* the JSON paths the builder threads through ts.args
PathRoot    == "$"
PathDetail  == "$.detail"
PathPayload == "$.Payload"
PathError   == "$.error"

\* lambda functions of the scope: construct id, and whether the function
\* returns a list (B and C) or a single value (A and D)
Lambdas == { [id |-> <<"A">>, list |-> FALSE], [id |-> <<"B">>, list |-> TRUE],
             [id |-> <<"C">>, list |-> TRUE],  [id |-> <<"D">>, list |-> FALSE] }

\* the name of a payload type: its list nesting depth decides it
TypeName(depth) == IF depth = 0 THEN "Elem" ELSE "List"

\* payload kinds of the AST nodes
IsLambda(f)   == f.kind = "lambda"
IsSource(f)   == f.kind = "source"
IsQueue(f)    == f.kind = "queue"
IsEventBus(f) == f.kind = "eventbus"
Foreign       == [kind |-> "foreign"]


----------------------------------------------------------------------------
(* Strings, and the digest that names a fan-out *)

HexDigits == <<"0", "1", "2", "3", "4", "5", "6", "7",
               "8", "9", "a", "b", "c", "d", "e", "f">>

\* the symbols identifiers are written with
Alphabet == <<"Map", "Try", "Err", "Sink", "Seq", "A", "B", "C", "D">> \o HexDigits

\* the byte value a symbol stands for
Code(c) == CHOOSE i \in 1..Len(Alphabet) : Alphabet[i] = c

\* encoding/hex of a 16-bit word: four hexadecimal digits, high digit first
HexWord(w) == << HexDigits[((w \div 4096) % 16) + 1], HexDigits[((w \div 256) % 16) + 1],
                 HexDigits[((w \div 16) % 16) + 1],   HexDigits[(w % 16) + 1] >>

\* one 16-bit word of the digest of a string: it depends on every symbol of the
\* string and on its position
RECURSIVE DigestWord(_, _, _)
DigestWord(str, mult, acc) ==
    IF str = <<>> THEN acc
    ELSE DigestWord(Tail(str), mult, (acc * mult + Code(Head(str))) % 65536)

\* hex.EncodeToString(sha256.Sum256(name))[:8]: a fixed-width digest of the
\* whole string, eight hexadecimal digits
Sha256Hex8(name) == HexWord(DigestWord(name, 31, 7)) \o HexWord(DigestWord(name, 37, 11))

----------------------------------------------------------------------------
(* The states of the Step Functions chain *)

\* awsstepfunctionstasks.NewSqsSendMessage
SqsSendMessage(id, queue, body) ==
    [kind |-> "SqsSendMessage", Id |-> id, Queue |-> queue, MessageBody |-> body]

\* awsstepfunctions.NewFail
Fail(id) == [kind |-> "Fail", Id |-> id]

\* awsstepfunctionstasks.NewLambdaInvoke, with the catch branches added to it
LambdaInvoke(id, inputPath, fn, catch) ==
    [kind |-> "LambdaInvoke", Id |-> id, InputPath |-> inputPath,
     LambdaFunction |-> fn, Catch |-> catch]

\* awsstepfunctions.NewMap, with its item processor
MapState(id, itemsPath, maxConcurrency, processor) ==
    [kind |-> "Map", Id |-> id, ItemsPath |-> itemsPath,
     MaxConcurrency |-> maxConcurrency, ItemProcessor |-> processor]

\* awsstepfunctionstasks.NewEventBridgePutEvents, with its single entry
EventBridgePutEvents(id, detail, detailType, source, eventBus) ==
    [kind |-> "EventBridgePutEvents", Id |-> id, Detail |-> detail,
     DetailType |-> detailType, Source |-> source, EventBus |-> eventBus]

\* the path a state reads its input from
InputOf(st) ==
    CASE st.kind = "LambdaInvoke"         -> st.InputPath
      [] st.kind = "SqsSendMessage"       -> st.MessageBody
      [] st.kind = "EventBridgePutEvents" -> st.Detail
      [] OTHER                            -> NIL

----------------------------------------------------------------------------
(* The builder: typeStep and its visitor callbacks *)

ErrBadDefinition == "bad definition of compute pipeline"
ErrNoSource      == "undefined event source for compute pipeline"
ErrCompute       == "unkown compute type"
ErrInput         == "unkown input type"
ErrReply         == "unkown reply type"
\* a Go runtime panic: an index outside a slice
PanicIndex       == "runtime error: index out of range"
\* the panic of a CDK constructor given nil for a required argument
PanicNil         == "parameter is required, but nil was provided"
\* the panic of a CDK constructor given an identifier the scope holds already
PanicDuplicate   == "There is already a Construct with name"
\* the panics: the callback does not return
Panics           == { PanicIndex, PanicNil, PanicDuplicate }

\* a nil *awsevents.EventPattern
NoPattern == [DetailType |-> <<>>, nil |-> TRUE]

\* NewTypeStep: the builder as constructed for the given properties
NewTypeStep(p) ==
    /\ DeadLetterQueue = p.DeadLetterQueue
    /\ bus = NIL
    /\ eventPattern = NoPattern
    /\ args = ""
    /\ stack = << <<>> >>
    /\ names = << <<>> >>
    /\ machines = <<>>
    /\ rules = <<>>

\* the identifiers of the constructs of a chain: its states, the states of
\* their catch branches and those of the nested item processors
RECURSIVE ChainIds(_)
ChainIds(chain) ==
    IF Len(chain) = 0 THEN {}
    ELSE LET st == Head(chain)
             own == CASE st.kind = "Map" -> ChainIds(st.ItemProcessor)
                      [] st.kind = "LambdaInvoke" ->
                            UNION { { st.Catch[i].Next[j].Id : j \in 1..Len(st.Catch[i].Next) } :
                                    i \in 1..Len(st.Catch) }
                      [] OTHER -> {}
         IN  {st.Id} \cup own \cup ChainIds(Tail(chain))

\* the identifiers of the states the construct scope of the builder holds
Scope == UNION { ChainIds(stack[i]) : i \in 1..Len(stack) }

\* mutant: the chain is started anew by every state
ChainNext_Start(last, f) == <<f>>

\* Chain_Start(f) on a nil chain, last.Next(f) otherwise
ChainNext(last, f) == IF last = <<>> THEN <<f>> ELSE Append(last, f)

\* mutant: the state is put in front of the innermost chain
AppendStack_Front(stk, f) == [stk EXCEPT ![Len(stk)] = <<f>> \o stk[Len(stk)]]

\* typeStep.append, on the stack: the innermost chain is extended by f
AppendStack(stk, f) == [stk EXCEPT ![Len(stk)] = ChainNext(stk[Len(stk)], f)]

\* mutant: the names also take the identifiers of the states of f's catch branch
AppendNames_Catch(nms, f) ==
    [nms EXCEPT ![Len(nms)] =
        nms[Len(nms)] \o f.Id \o
        (IF f.kind = "LambdaInvoke" /\ Len(f.Catch) > 0
         THEN f.Catch[1].Next[1].Id ELSE <<>>)]

\* typeStep.append, on the names: the innermost names are extended by f's id
AppendNames(nms, f) == [nms EXCEPT ![Len(nms)] = nms[Len(nms)] \o f.Id]

\* the callbacks that only return nil
OnEnterMorphism(node) == err' = NIL /\ UNCHANGED ts
OnLeaveFrom(node)     == err' = NIL /\ UNCHANGED ts
OnLeaveYield(node)    == err' = NIL /\ UNCHANGED ts

\* mutant: the event source is not checked
LeaveMorphismError_NoSourceCheck ==
    IF Len(stack) # 1 THEN ErrBadDefinition ELSE NIL

\* mutant: the event source is checked before the open levels
LeaveMorphismError_SourceFirst ==
    IF bus = NIL THEN ErrNoSource
    ELSE IF Len(stack) # 1 THEN ErrBadDefinition
    ELSE NIL

\* mutant: a chain without a send state is a bad definition
LeaveMorphismError_YieldRequired ==
    IF Len(stack) # 1 THEN ErrBadDefinition
    ELSE IF bus = NIL THEN ErrNoSource
    ELSE IF <<"Sink">> \notin Scope THEN ErrBadDefinition
    ELSE NIL

\* the error OnLeaveMorphism returns, nil when the pipeline is complete
LeaveMorphismError ==
    IF Len(stack) # 1 THEN ErrBadDefinition
    ELSE IF bus = NIL THEN ErrNoSource
    ELSE NIL

\* awsstepfunctions.NewStateMachine over the outermost chain
NewStateMachine == [Id |-> "StateMachine", DefinitionBody |-> stack[1]]

\* awsevents.NewRule with the state machine n of the scope as its target
NewRule(n) == [Id |-> "Rule", EventBus |-> bus, EventPattern |-> eventPattern, Target |-> n]

\* the panic of the constructors of OnLeaveMorphism: the definition body of a
\* nil chain, a second "StateMachine" in the scope
LeaveMorphismPanic ==
    IF Len(stack[1]) = 0 THEN PanicNil
    ELSE IF Len(machines) # 0 THEN PanicDuplicate
    ELSE NIL

OnLeaveMorphism(node) ==
    /\ UNCHANGED <<DeadLetterQueue, bus, eventPattern, args, stack, names>>
    /\ IF LeaveMorphismError # NIL
       THEN /\ err' = LeaveMorphismError
            /\ UNCHANGED <<machines, rules>>
       ELSE IF LeaveMorphismPanic # NIL
       THEN /\ err' = LeaveMorphismPanic
            /\ UNCHANGED <<machines, rules>>
       ELSE /\ err' = NIL
            /\ machines' = Append(machines, NewStateMachine)
            /\ rules' = Append(rules, NewRule(Len(machines) + 1))

\* mutant: the input path of the enclosing level is kept
EnterSeqArgs_Keep == args

\* the path the first state of a nested chain reads
EnterSeqArgs == PathRoot

\* mutant: a level is opened on the stack and not on the names
OnEnterSeq_NoNames(node) ==
    /\ stack' = Append(stack, <<>>)
    /\ args' = EnterSeqArgs
    /\ err' = NIL
    /\ UNCHANGED <<DeadLetterQueue, bus, eventPattern, names, machines, rules>>

OnEnterSeq(node) ==
    /\ stack' = Append(stack, <<>>)
    /\ names' = Append(names, <<>>)
    /\ args' = EnterSeqArgs
    /\ err' = NIL
    /\ UNCHANGED <<DeadLetterQueue, bus, eventPattern, machines, rules>>

\* mutant: the bound of the lambda is not recovered
SeqConcurrency_Default(node) == 1

\* mutant: the bound is also looked for in a nested Seq
SeqConcurrency_Nested(node) ==
    LET first == node.Seq[1]
    IN  IF first.kind = "Map" /\ IsLambda(first.F) THEN first.F.concurency
        ELSE IF first.kind = "Seq" /\ Len(first.Seq) > 0 /\ first.Seq[1].kind = "Map"
                /\ IsLambda(first.Seq[1].F)
        THEN first.Seq[1].F.concurency
        ELSE 1

\* the concurrency of a fan-out: that of the lambda of the Seq's first child
SeqConcurrency(node) ==
    IF node.Seq[1].kind = "Map" /\ IsLambda(node.Seq[1].F)
    THEN node.Seq[1].F.concurency
    ELSE 1

\* mutant: the identifier also depends on the number of levels open
SeqId_Depth(name) == <<"Seq">> \o Sha256Hex8(name \o << HexDigits[Len(stack)] >>)

\* the identifier of the fan-out built from the names of a level
SeqId(name) == <<"Seq">> \o Sha256Hex8(name)

\* mutant: the fan-out reads its items from the current input path
SeqItemsPath_Args == args

\* the path the fan-out reads its items from
SeqItemsPath == PathPayload

\* mutant: the state after a fan-out reads the result field
LeaveSeqArgs_Payload == PathPayload

\* the path the state after a fan-out reads
LeaveSeqArgs == PathRoot

\* mutant: the popped chain is not made the item processor
ForEach_NoProcessor(node) ==
    MapState(SeqId(names[Len(stack)]), SeqItemsPath, SeqConcurrency(node), <<>>)

\* the fan-out state OnLeaveSeq builds from the innermost level
ForEach(node) ==
    MapState(SeqId(names[Len(stack)]), SeqItemsPath, SeqConcurrency(node), stack[Len(stack)])

OnLeaveSeq(node) ==
    /\ UNCHANGED <<DeadLetterQueue, bus, eventPattern, machines, rules>>
    /\ IF Len(node.Seq) = 0
       THEN \* node.Seq[0] of an empty Seq
            /\ err' = PanicIndex
            /\ UNCHANGED <<stack, names, args>>
       ELSE IF SeqId(names[Len(stack)]) \in Scope
       THEN \* NewMap of an identifier the scope holds
            /\ err' = PanicDuplicate
            /\ UNCHANGED <<stack, names, args>>
       ELSE IF Len(stack[Len(stack)]) = 0
       THEN \* ItemProcessor of a nil chain
            /\ err' = PanicNil
            /\ UNCHANGED <<stack, names, args>>
       ELSE IF Len(stack) = 1
       THEN \* the outermost level is popped and append finds no level left
            /\ err' = PanicIndex
            /\ stack' = <<>>
            /\ names' = <<>>
            /\ UNCHANGED args
       ELSE /\ stack' = AppendStack(SubSeq(stack, 1, Len(stack) - 1), ForEach(node))
            /\ names' = AppendNames(SubSeq(names, 1, Len(stack) - 1), ForEach(node))
            /\ args' = LeaveSeqArgs
            /\ err' = NIL

\* mutant: the catch branch forwards and does not fail
CatchOf_NoFail(dlq, uuid) ==
    IF dlq # NIL
    THEN << [ResultPath |-> PathError,
             Next |-> << SqsSendMessage(<<"Try">> \o uuid, dlq, PathRoot) >>] >>
    ELSE <<>>

\* the catch branches of an invoke state: forward to the dead-letter queue, then fail
CatchOf(dlq, uuid) ==
    IF dlq # NIL
    THEN << [ResultPath |-> PathError,
             Next |-> << SqsSendMessage(<<"Try">> \o uuid, dlq, PathRoot),
                         Fail(<<"Err">> \o uuid) >>] >>
    ELSE <<>>

\* the invoke state OnEnterMap builds for a lambda
Compute(f) ==
    LambdaInvoke(<<"Map">> \o f.f, args, f.f, CatchOf(DeadLetterQueue, f.f))

\* mutant: the state is built and appended before the kind of binding is known
OnEnterMap_Eager(node) ==
    /\ UNCHANGED <<DeadLetterQueue, bus, eventPattern, args, machines, rules>>
    /\ stack' = AppendStack(stack, LambdaInvoke(<<"Map">>, args, NIL, <<>>))
    /\ names' = AppendNames(names, LambdaInvoke(<<"Map">>, args, NIL, <<>>))
    /\ err' = IF IsLambda(node.F) THEN NIL ELSE ErrCompute

\* mutant: the forward-to-dead-letter state follows the invoke state in the chain
OnEnterMap_CatchInChain(node) ==
    /\ UNCHANGED <<DeadLetterQueue, bus, eventPattern, args, machines, rules>>
    /\ IF ~IsLambda(node.F)
       THEN /\ err' = ErrCompute
            /\ UNCHANGED <<stack, names>>
       ELSE IF Compute(node.F).Id \in Scope
       THEN /\ err' = PanicDuplicate
            /\ UNCHANGED <<stack, names>>
       ELSE /\ stack' = IF DeadLetterQueue # NIL
                        THEN AppendStack(AppendStack(stack, Compute(node.F)),
                                         Compute(node.F).Catch[1].Next[1])
                        ELSE AppendStack(stack, Compute(node.F))
            /\ names' = AppendNames(names, Compute(node.F))
            /\ err' = NIL

OnEnterMap(node) ==
    /\ UNCHANGED <<DeadLetterQueue, bus, eventPattern, args, machines, rules>>
    /\ IF ~IsLambda(node.F)
       THEN /\ err' = ErrCompute
            /\ UNCHANGED <<stack, names>>
       ELSE IF Compute(node.F).Id \in Scope
       THEN \* NewLambdaInvoke of an identifier the scope holds
            /\ err' = PanicDuplicate
            /\ UNCHANGED <<stack, names>>
       ELSE /\ stack' = AppendStack(stack, Compute(node.F))
            /\ names' = AppendNames(names, Compute(node.F))
            /\ err' = NIL

\* mutant: the envelope of the response is not unpacked
LeaveMapArgs_Root == PathRoot

\* the path the state after a lambda reads: the response is always packed
LeaveMapArgs == PathPayload

OnLeaveMap(node) ==
    /\ args' = LeaveMapArgs
    /\ err' = NIL
    /\ UNCHANGED <<DeadLetterQueue, bus, eventPattern, stack, names, machines, rules>>

\* the path the state after From reads
EnterFromArgs == PathDetail

\* mutant: the categories given to From do not replace the type name
DetailTypeOf_TypeOnly(node) == <<node.Type>>

\* the detail types the rule is filtered on
DetailTypeOf(node) ==
    IF Len(node.Source.cat) # 0 THEN node.Source.cat ELSE <<node.Type>>

OnEnterFrom(node) ==
    /\ UNCHANGED <<DeadLetterQueue, stack, names, machines, rules>>
    /\ IF IsSource(node.Source)
       THEN /\ bus' = node.Source.bus
            /\ eventPattern' = [DetailType |-> DetailTypeOf(node)]
            /\ args' = EnterFromArgs
            /\ err' = NIL
       ELSE /\ err' = ErrInput
            /\ UNCHANGED <<bus, eventPattern, args>>

\* mutant: the category given to ToEventBus does not replace the type name
YieldKind_TypeOnly(node) == node.Type

\* the category of the event a pipeline yields to an event bus
YieldKind(node) ==
    IF Len(node.Target.cat) # 0 THEN node.Target.cat[1] ELSE node.Type

\* the send state OnEnterYield builds; NIL for a target of no known kind
Sink(node) ==
    CASE IsQueue(node.Target) ->
            SqsSendMessage(<<"Sink">>, node.Target.q, args)
      [] IsEventBus(node.Target) ->
            EventBridgePutEvents(<<"Sink">>, args, YieldKind(node),
                                 node.Target.source, node.Target.bus)
      [] OTHER -> NIL

OnEnterYield(node) ==
    /\ UNCHANGED <<DeadLetterQueue, bus, eventPattern, args, machines, rules>>
    /\ IF ~(IsQueue(node.Target) \/ IsEventBus(node.Target))
       THEN /\ err' = ErrReply
            /\ UNCHANGED <<stack, names>>
       ELSE IF <<"Sink">> \in Scope
       THEN \* a second "Sink" in the scope
            /\ err' = PanicDuplicate
            /\ UNCHANGED <<stack, names>>
       ELSE /\ stack' = AppendStack(stack, Sink(node))
            /\ names' = AppendNames(names, Sink(node))
            /\ err' = NIL

----------------------------------------------------------------------------
(* The pipeline algebra: every composition returns a new morphism.  A        *)
(* morphism is the AST under construction: levels[1] is the root sequence   *)
(* and each further level a Seq that is still open; depth is the list       *)
(* nesting of its output type, void says that it ends with a Yield.  The    *)
(* morphism also remembers how it was composed: lifted lists the bound of   *)
(* each fan-out in the order they were opened (n for LiftP, 1 for Lift and  *)
(* Wrap), joined the lambdas bound by Join.                                 *)

NoMorphism == [levels |-> <<>>, depth |-> 0, void |-> FALSE, foreign |-> FALSE,
               ops |-> 0, used |-> {}, lifted |-> <<>>, joined |-> {}]

AstFrom(type, source)  == [kind |-> "From", Type |-> type, Source |-> source]
AstMap(f)              == [kind |-> "Map", F |-> f]
AstSeq(seq)            == [kind |-> "Seq", Seq |-> seq]
AstYield(type, target) == [kind |-> "Yield", Type |-> type, Target |-> target]

\* the node is added at the end of the innermost open sequence
Extend(levels, node) == [levels EXCEPT ![Len(levels)] = Append(levels[Len(levels)], node)]

\* the function bindings Join, Lift and LiftP make
JoinBinding(f)     == [kind |-> "lambda", concurency |-> 1, f |-> f.id]
LiftBinding(f)     == [kind |-> "lambda", concurency |-> 1, f |-> f.id]
LiftPBinding(n, f) == [kind |-> "lambda", concurency |-> n, f |-> f.id]

\* can be composed further: a morphism that does not end with a Yield.  The
\* traversal ends at the first payload that is not the library's, so nothing is
\* composed on top of one.
Open == pc = "build" /\ m.levels # <<>> /\ ~m.void /\ ~m.foreign /\ m.ops < MaxOps

\* the lambdas of the scope are bound in the order of their identifiers
Unbound(f) == \A id \in m.used : Code(id[1]) < Code(f.id[1])

From(isList, cat) ==
    /\ pc = "build" /\ m.levels = <<>>
    /\ m' = [NoMorphism EXCEPT
               !.levels = << << AstFrom(TypeName(IF isList THEN 1 ELSE 0),
                                        [kind |-> "source", cat |-> cat, bus |-> "input"]) >> >>,
               !.depth = IF isList THEN 1 ELSE 0]
    /\ UNCHANGED <<ts, err, todo, pc, hist, props>>

\* the morphism composed with a Map of the given binding
WithMap(binding, f) ==
    [m EXCEPT !.levels = Extend(m.levels, AstMap(binding)),
              !.depth = IF f.list THEN 1 ELSE 0,
              !.ops = @ + 1, !.used = @ \cup {f.id}]

\* the morphism composed with a new Seq that starts with a Map of the binding
WithSeqMap(binding, f) ==
    [m EXCEPT !.levels = Append(m.levels, << AstMap(binding) >>),
              !.depth = IF f.list THEN 1 ELSE 0,
              !.ops = @ + 1, !.used = @ \cup {f.id}]

\* the morphism remembers the bound its newest fan-out was given
Lifted(mm, n) == [mm EXCEPT !.lifted = Append(@, n)]

Join(f) ==
    /\ Open /\ m.depth = 0 /\ Unbound(f)
    /\ m' = [WithMap(JoinBinding(f), f) EXCEPT !.joined = @ \cup {f.id}]
    /\ UNCHANGED <<ts, err, todo, pc, hist, props>>

Lift(f) ==
    /\ Open /\ m.depth = 1 /\ Unbound(f)
    /\ m' = Lifted(WithSeqMap(LiftBinding(f), f), 1)
    /\ UNCHANGED <<ts, err, todo, pc, hist, props>>

LiftP(n, f) ==
    /\ Open /\ m.depth = 1 /\ Unbound(f)
    /\ m' = Lifted(WithSeqMap(LiftPBinding(n, f), f), n)
    /\ UNCHANGED <<ts, err, todo, pc, hist, props>>

Wrap ==
    /\ Open /\ m.depth >= 1
    /\ m' = Lifted([m EXCEPT !.levels = Append(m.levels, <<>>), !.depth = @ - 1,
                              !.ops = @ + 1], 1)
    /\ UNCHANGED <<ts, err, todo, pc, hist, props>>

\* the innermost open sequence is closed into a Seq node of the level above
CloseLevel(levels) ==
    Extend(SubSeq(levels, 1, Len(levels) - 1), AstSeq(levels[Len(levels)]))

Unit ==
    /\ Open /\ Len(m.levels) > 1
    /\ m' = [m EXCEPT !.levels = CloseLevel(m.levels), !.depth = @ + 1, !.ops = @ + 1]
    /\ UNCHANGED <<ts, err, todo, pc, hist, props>>

ToQueue(q) ==
    /\ Open
    /\ m' = [m EXCEPT !.levels = Extend(m.levels,
                          AstYield(TypeName(m.depth), [kind |-> "queue", q |-> q])),
                      !.void = TRUE, !.ops = @ + 1]
    /\ UNCHANGED <<ts, err, todo, pc, hist, props>>

ToEventBus(source, out, cat) ==
    /\ Open
    /\ m' = [m EXCEPT !.levels = Extend(m.levels,
                          AstYield(TypeName(m.depth),
                                   [kind |-> "eventbus", bus |-> out, source |-> source, cat |-> cat])),
                      !.void = TRUE, !.ops = @ + 1]
    /\ UNCHANGED <<ts, err, todo, pc, hist, props>>

\* a morphism composed with duct directly: its payload is none of the library's
ForeignFrom ==
    /\ pc = "build" /\ m.levels = <<>>
    /\ m' = [NoMorphism EXCEPT !.levels = << << AstFrom(TypeName(0), Foreign) >> >>,
                               !.foreign = TRUE]
    /\ UNCHANGED <<ts, err, todo, pc, hist, props>>

ForeignJoin ==
    /\ Open
    /\ m' = [m EXCEPT !.levels = Extend(m.levels, AstMap(Foreign)),
                      !.foreign = TRUE, !.ops = @ + 1]
    /\ UNCHANGED <<ts, err, todo, pc, hist, props>>

\* a Yield to a nil queue, or to a target of another kind
ForeignYield ==
    /\ Open
    /\ m' = [m EXCEPT !.levels = Extend(m.levels, AstYield(TypeName(m.depth), Foreign)),
                      !.void = TRUE, !.foreign = TRUE, !.ops = @ + 1]
    /\ UNCHANGED <<ts, err, todo, pc, hist, props>>

----------------------------------------------------------------------------
(* StateMachine: m.Apply(b) walks the AST and calls the visitor *)

Call(cb, node) == [cb |-> cb, node |-> node]

\* the callbacks made for a sequence of nodes, in order
RECURSIVE Visit(_)
Visit(nodes) ==
    IF Len(nodes) = 0 THEN <<>>
    ELSE LET n == Head(nodes)
             own == CASE n.kind = "From"  -> << Call("OnEnterFrom", n), Call("OnLeaveFrom", n) >>
                      [] n.kind = "Map"   -> << Call("OnEnterMap", n), Call("OnLeaveMap", n) >>
                      [] n.kind = "Yield" -> << Call("OnEnterYield", n), Call("OnLeaveYield", n) >>
                      [] n.kind = "Seq"   -> << Call("OnEnterSeq", n) >> \o Visit(n.Seq)
                                             \o << Call("OnLeaveSeq", n) >>
         IN  own \o Visit(Tail(nodes))

\* the root of the AST: every Seq still open is closed
RECURSIVE Root(_)
Root(levels) == IF Len(levels) = 1 THEN AstSeq(levels[1]) ELSE Root(CloseLevel(levels))

\* the callbacks of one traversal
Apply(root) ==
    << Call("OnEnterMorphism", root) >> \o Visit(root.Seq) \o << Call("OnLeaveMorphism", root) >>

\* the invocations of StateMachine made so far
Runs == Cardinality({ i \in 1..Len(hist) : hist[i] = "StateMachine" })

\* StateMachine(ts, m): on a TypeStep value just made, or once more on the
\* value an earlier invocation returned from
StateMachine ==
    /\ pc = "build" \/ (pc = "done" /\ Runs < MaxRuns)
    /\ m.levels # <<>>
    /\ todo' = Apply(Root(m.levels))
    /\ pc' = "walk"
    /\ hist' = Append(hist, "StateMachine")
    /\ UNCHANGED <<ts, err, m, props>>

\* the next callback of the traversal is cb
Walking(cb) == pc = "walk" /\ todo # <<>> /\ Head(todo).cb = cb

\* mutant: the error of a callback is dropped and the traversal goes on
Advance_IgnoreError(cb) ==
    /\ todo' = Tail(todo)
    /\ hist' = Append(hist, cb)
    /\ pc' = IF Len(todo) = 1 THEN "done" ELSE "walk"
    /\ UNCHANGED <<m, props>>

\* the traversal goes on after a callback returned nil; StateMachine panics with
\* the error otherwise
Advance(cb) ==
    /\ todo' = Tail(todo)
    /\ hist' = Append(hist, cb)
    /\ pc' = IF err' # NIL THEN "panic" ELSE IF Len(todo) = 1 THEN "done" ELSE "walk"
    /\ UNCHANGED <<m, props>>

WalkEnterMorphism == Walking("OnEnterMorphism") /\ OnEnterMorphism(Head(todo).node) /\ Advance("OnEnterMorphism")
WalkLeaveMorphism == Walking("OnLeaveMorphism") /\ OnLeaveMorphism(Head(todo).node) /\ Advance("OnLeaveMorphism")
WalkEnterFrom     == Walking("OnEnterFrom")     /\ OnEnterFrom(Head(todo).node)     /\ Advance("OnEnterFrom")
WalkLeaveFrom     == Walking("OnLeaveFrom")     /\ OnLeaveFrom(Head(todo).node)     /\ Advance("OnLeaveFrom")
WalkEnterMap      == Walking("OnEnterMap")      /\ OnEnterMap(Head(todo).node)      /\ Advance("OnEnterMap")
WalkLeaveMap      == Walking("OnLeaveMap")      /\ OnLeaveMap(Head(todo).node)      /\ Advance("OnLeaveMap")
WalkEnterSeq      == Walking("OnEnterSeq")      /\ OnEnterSeq(Head(todo).node)      /\ Advance("OnEnterSeq")
WalkLeaveSeq      == Walking("OnLeaveSeq")      /\ OnLeaveSeq(Head(todo).node)      /\ Advance("OnLeaveSeq")
WalkEnterYield    == Walking("OnEnterYield")    /\ OnEnterYield(Head(todo).node)    /\ Advance("OnEnterYield")
WalkLeaveYield    == Walking("OnLeaveYield")    /\ OnLeaveYield(Head(todo).node)    /\ Advance("OnLeaveYield")

\* the properties NewTypeStep is given: the dead-letter queue is nil or a queue,
\* the pointer SeqConcurrency nil (<<>>) or set (<<1>>)
Props == { [DeadLetterQueue |-> q, SeqConcurrency |-> n] :
             q \in {NIL, "reply"}, n \in { <<>>, <<1>> } }

\* the categories From and ToEventBus are given
Cats == { <<>>, <<"Cat1", "Cat2">> }

\* the properties that leave SeqConcurrency unset, as the examples do
DefaultProps == { p \in Props : p.SeqConcurrency = <<>> }

Init ==
    /\ props \in DefaultProps
    /\ NewTypeStep(props)
    /\ err = NIL
    /\ m = NoMorphism
    /\ todo = <<>>
    /\ pc = "build"
    /\ hist = <<>>

\* the builder made with any properties, SeqConcurrency set or not
InitProps ==
    /\ props \in Props
    /\ NewTypeStep(props)
    /\ err = NIL
    /\ m = NoMorphism
    /\ todo = <<>>
    /\ pc = "build"
    /\ hist = <<>>

Compose ==
    \/ \E isList \in BOOLEAN, cat \in Cats : From(isList, cat)
    \/ \E f \in Lambdas : Join(f)
    \/ \E f \in Lambdas : Lift(f)
    \/ \E n \in 1..MaxConc, f \in Lambdas : LiftP(n, f)
    \/ Wrap
    \/ Unit
    \/ ToQueue("reply")
    \/ \E cat \in Cats : ToEventBus("source", "output", cat)
    \/ ForeignFrom
    \/ ForeignJoin
    \/ ForeignYield

Traverse ==
    \/ WalkEnterMorphism \/ WalkLeaveMorphism
    \/ WalkEnterFrom \/ WalkLeaveFrom
    \/ WalkEnterMap \/ WalkLeaveMap
    \/ WalkEnterSeq \/ WalkLeaveSeq
    \/ WalkEnterYield \/ WalkLeaveYield

Next == Compose \/ StateMachine \/ Traverse

Spec == Init /\ [][Next]_vars

SpecProps == InitProps /\ [][Next]_vars

----------------------------------------------------------------------------
(* The visitor driven directly: a caller of the duct.Visitor interface makes  *)
(* the callbacks in any order, on nodes of its own choice.                   *)

DirectMaps   == { AstMap(JoinBinding([id |-> <<"A">>, list |-> FALSE])), AstMap(Foreign) }
DirectFroms  == { AstFrom("Elem", [kind |-> "source", cat |-> <<>>, bus |-> "input"]),
                  AstFrom("Elem", Foreign) }
DirectYields == { AstYield("Elem", [kind |-> "queue", q |-> "reply"]),
                  AstYield("Elem", [kind |-> "eventbus", bus |-> "output",
                                    source |-> "source", cat |-> <<>>]),
                  AstYield("Elem", Foreign) }
DirectSeqs   == { AstSeq(<< AstMap(LiftPBinding(MaxConc, [id |-> <<"B">>, list |-> FALSE])) >>),
                  AstSeq(<<>>) }

\* the caller goes on after a callback returned, with an error or without; a
\* runtime panic ends the run
Direct(cb) ==
    /\ hist' = Append(hist, cb)
    /\ pc' = IF err' \in Panics THEN "panic" ELSE "direct"
    /\ UNCHANGED <<m, todo, props>>

Calling == pc = "direct" /\ Len(hist) < MaxCalls

DirectEnterMorphism == Calling /\ OnEnterMorphism(AstSeq(<<>>)) /\ Direct("OnEnterMorphism")
DirectLeaveMorphism == Calling /\ OnLeaveMorphism(AstSeq(<<>>)) /\ Direct("OnLeaveMorphism")
DirectEnterFrom     == Calling /\ (\E n \in DirectFroms : OnEnterFrom(n)) /\ Direct("OnEnterFrom")
DirectLeaveFrom     == Calling /\ (\E n \in DirectFroms : OnLeaveFrom(n)) /\ Direct("OnLeaveFrom")
DirectEnterMap      == Calling /\ (\E n \in DirectMaps : OnEnterMap(n)) /\ Direct("OnEnterMap")
DirectLeaveMap      == Calling /\ (\E n \in DirectMaps : OnLeaveMap(n)) /\ Direct("OnLeaveMap")
DirectEnterSeq      == Calling /\ (\E n \in DirectSeqs : OnEnterSeq(n)) /\ Direct("OnEnterSeq")
DirectLeaveSeq      == Calling /\ (\E n \in DirectSeqs : OnLeaveSeq(n)) /\ Direct("OnLeaveSeq")
DirectEnterYield    == Calling /\ (\E n \in DirectYields : OnEnterYield(n)) /\ Direct("OnEnterYield")
DirectLeaveYield    == Calling /\ (\E n \in DirectYields : OnLeaveYield(n)) /\ Direct("OnLeaveYield")

InitDirect ==
    /\ props \in Props
    /\ NewTypeStep(props)
    /\ err = NIL
    /\ m = NoMorphism
    /\ todo = <<>>
    /\ pc = "direct"
    /\ hist = <<>>

NextDirect ==
    \/ DirectEnterMorphism \/ DirectLeaveMorphism
    \/ DirectEnterFrom \/ DirectLeaveFrom
    \/ DirectEnterMap \/ DirectLeaveMap
    \/ DirectEnterSeq \/ DirectLeaveSeq
    \/ DirectEnterYield \/ DirectLeaveYield

SpecDirect == InitDirect /\ [][NextDirect]_vars

----------------------------------------------------------------------------
(* Vocabulary of the properties *)

\* every state of a chain, those of the nested item processors included
RECURSIVE AllStates(_)
AllStates(chain) ==
    IF Len(chain) = 0 THEN <<>>
    ELSE LET st == Head(chain)
         IN  << st >> \o (IF st.kind = "Map" THEN AllStates(st.ItemProcessor) ELSE <<>>)
                      \o AllStates(Tail(chain))

\* every state the builder holds, over all the open levels
RECURSIVE HeldStates(_)
HeldStates(stk) == IF Len(stk) = 0 THEN <<>> ELSE AllStates(Head(stk)) \o HeldStates(Tail(stk))

\* no Seq of the sequence of nodes is empty
RECURSIVE NoEmptySeq(_)
NoEmptySeq(nodes) ==
    \A i \in 1..Len(nodes) :
        nodes[i].kind = "Seq" => (Len(nodes[i].Seq) > 0 /\ NoEmptySeq(nodes[i].Seq))

\* a well-formed pipeline: one From first, payloads of the library's kinds, one
\* Yield at the end and a first child in every Seq
WellFormed ==
    /\ m.levels # <<>>
    /\ m.void /\ ~m.foreign
    /\ NoEmptySeq(Root(m.levels).Seq)

\* the compilation is over: the traversal returned or StateMachine panicked
Over == pc \in {"done", "panic"}

\* the callback made last, and whether it emitted a state
LastCall == IF Len(hist) = 0 THEN NIL ELSE hist[Len(hist)]
PrevCall == IF Len(hist) < 2 THEN NIL ELSE hist[Len(hist) - 1]
Emitted  == LastCall \in {"OnEnterMap", "OnEnterYield"} /\ err = NIL

\* the state at the end of the innermost chain
LastState == stack[Len(stack)][Len(stack[Len(stack)])]

----------------------------------------------------------------------------
\* a pipeline as C1 words it: one From first, the Seqs balanced, one Yield at
\* the end, payloads of the library's kinds
OneFromOneYield == m.levels # <<>> /\ m.void /\ ~m.foreign

(* C1 as stated: the compilation of every pipeline with one From first,     *)
(* balanced Seqs and one Yield returns with exactly one chain level open,   *)
(* exactly one state machine made of the outermost chain and exactly one    *)
(* rule, whose target is that machine.  A Seq that Wrap opened and Unit     *)
(* closed at once has no first child, and OnLeaveSeq panics on it.          *)
C1_StructuralCompleteness ==
    (OneFromOneYield /\ Over /\ Runs = 1) =>
        /\ pc = "done"
        /\ Len(stack) = 1
        /\ Len(machines) = 1 /\ machines[1].DefinitionBody = stack[1]
        /\ Len(rules) = 1 /\ rules[1].Target = 1 /\ rules[1].EventBus = "input"

(* C2: the state emitted right after From reads "$.detail", and the state   *)
(* emitted right after OnLeaveMap, at the same nesting level, reads         *)
(* "$.Payload".                                                             *)
C2_PathAfterFromAndMap ==
    Emitted =>
        /\ PrevCall = "OnLeaveFrom" => InputOf(LastState) = PathDetail
        /\ PrevCall = "OnLeaveMap"  => InputOf(LastState) = PathPayload

C2_Witness ==
    /\ Emitted /\ PrevCall = "OnLeaveMap" /\ LastCall = "OnEnterYield"
    /\ Len(stack) = 1 /\ Len(stack[1]) = 2
    /\ InputOf(stack[1][1]) = PathDetail
    /\ InputOf(stack[1][2]) = PathPayload

(* C3 as stated: right after OnLeaveSeq the input path is "$.Payload".      *)
C3_Original ==
    (LastCall = "OnLeaveSeq" /\ err = NIL) => args = PathPayload

(* C3 as amended: right after OnLeaveSeq the input path is the root "$",    *)
(* so the state emitted next, at that level, reads the whole output of the  *)
(* fan-out.                                                                 *)
C3_PathAfterSeq ==
    /\ (LastCall = "OnLeaveSeq" /\ err = NIL) => args = PathRoot
    /\ (Emitted /\ PrevCall = "OnLeaveSeq") => InputOf(LastState) = PathRoot

C3_Witness ==
    /\ Emitted /\ PrevCall = "OnLeaveSeq"
    /\ LastState.kind = "SqsSendMessage" /\ LastState.MessageBody = PathRoot
    /\ Len(stack[Len(stack)]) > 1

\* the catch branch of an invoke state forwards to the queue and then fails
ForwardAndFail(catch, queue) ==
    /\ Len(catch.Next) = 2
    /\ catch.Next[1].kind = "SqsSendMessage" /\ catch.Next[1].Queue = queue
    /\ catch.Next[2].kind = "Fail"

(* C4: with a dead-letter queue every invoke state, at every nesting level, *)
(* has exactly one catch branch: forward to that queue, then Fail.  Without *)
(* one no invoke state has a catch branch.                                  *)
C4_DeadLetterWiring ==
    LET held == HeldStates(stack)
    IN  \A i \in 1..Len(held) :
            held[i].kind = "LambdaInvoke" =>
                IF DeadLetterQueue # NIL
                THEN /\ Len(held[i].Catch) = 1
                     /\ ForwardAndFail(held[i].Catch[1], DeadLetterQueue)
                ELSE Len(held[i].Catch) = 0

C4_Witness ==
    /\ pc = "done" /\ DeadLetterQueue = "reply"
    /\ Len(machines) = 1
    /\ \E i \in 1..Len(stack[1]) :
          /\ stack[1][i].kind = "Map"
          /\ Len(stack[1][i].ItemProcessor) > 0
          /\ stack[1][i].ItemProcessor[1].kind = "LambdaInvoke"
          /\ Len(stack[1][i].ItemProcessor[1].Catch) = 1

\* the bounds of the fan-out states of a chain, each before those nested in it
RECURSIVE ForEachBounds(_)
ForEachBounds(chain) ==
    IF Len(chain) = 0 THEN <<>>
    ELSE LET st == Head(chain)
         IN  (IF st.kind = "Map"
              THEN << st.MaxConcurrency >> \o ForEachBounds(st.ItemProcessor)
              ELSE <<>>) \o ForEachBounds(Tail(chain))

\* every Map node of a sequence of nodes, those nested in a Seq included
RECURSIVE MapNodes(_)
MapNodes(nodes) ==
    IF Len(nodes) = 0 THEN <<>>
    ELSE LET n == Head(nodes)
         IN  (CASE n.kind = "Map" -> << n >>
                [] n.kind = "Seq" -> MapNodes(n.Seq)
                [] OTHER          -> <<>>) \o MapNodes(Tail(nodes))

\* the bindings of the lambdas the pipeline bound by Join
JoinedBindings ==
    LET maps == MapNodes(Root(m.levels).Seq)
    IN  { maps[i].F : i \in { j \in 1..Len(maps) :
                                 IsLambda(maps[j].F) /\ maps[j].F.f \in m.joined } }

RECURSIVE NodeId(_), NameOf(_)
NodeId(n) ==
    CASE n.kind = "Map"   -> <<"Map">> \o n.F.f
      [] n.kind = "Yield" -> <<"Sink">>
      [] n.kind = "Seq"   -> <<"Seq">> \o Sha256Hex8(NameOf(n.Seq))
      [] OTHER            -> <<>>
NameOf(nodes) ==
    IF Len(nodes) = 0 THEN <<>> ELSE NodeId(Head(nodes)) \o NameOf(Tail(nodes))

\* the identifiers of the fan-outs of a pipeline, each before those nested in it
RECURSIVE SeqNodeIds(_)
SeqNodeIds(nodes) ==
    IF Len(nodes) = 0 THEN <<>>
    ELSE LET n == Head(nodes)
         IN  (IF n.kind = "Seq" THEN << NodeId(n) >> \o SeqNodeIds(n.Seq) ELSE <<>>)
             \o SeqNodeIds(Tail(nodes))

\* the identifiers of the ForEach states of a chain, each before those nested in it
RECURSIVE ForEachIds(_)
ForEachIds(chain) ==
    IF Len(chain) = 0 THEN <<>>
    ELSE LET st == Head(chain)
         IN  (IF st.kind = "Map" THEN << st.Id >> \o ForEachIds(st.ItemProcessor) ELSE <<>>)
             \o ForEachIds(Tail(chain))

(* C6: the names of the ForEach states are a function of the pipeline: a    *)
(* compilation on a fresh builder gives every Seq the name computed from    *)
(* the identifiers of the states of its own level, whatever the builder's   *)
(* properties and whatever was compiled before it.                          *)
C6_NamingDeterminism ==
    pc = "done" => ForEachIds(stack[1]) = SeqNodeIds(Root(m.levels).Seq)

C6_Witness ==
    /\ pc = "done" /\ Len(machines) = 1
    /\ Len(ForEachIds(stack[1])) = 2
    /\ \E i \in 1..Len(stack[1]) :
          stack[1][i].kind = "Map" /\ Len(ForEachIds(stack[1][i].ItemProcessor)) = 1

(* C7: OnLeaveMorphism called with one level open and no event source       *)
(* captured returns "undefined event source" and creates neither a state    *)
(* machine nor a rule.                                                      *)
C7_MissingSource ==
    [][ (hist' = Append(hist, "OnLeaveMorphism") /\ Len(stack) = 1 /\ bus = NIL) =>
            (err' = ErrNoSource /\ machines' = machines /\ rules' = rules) ]_vars

C7_Witness ==
    /\ LastCall = "OnLeaveMorphism" /\ PrevCall = "OnLeaveMap"
    /\ Len(stack) = 1 /\ Len(stack[1]) = 1 /\ bus = NIL
    /\ err = ErrNoSource /\ machines = <<>> /\ rules = <<>>

(* C8: OnLeaveMorphism called while the open levels are not exactly one     *)
(* returns "bad definition of compute pipeline" and creates neither a state *)
(* machine nor a rule, also when no event source was captured.              *)
C8_UnbalancedNesting ==
    [][ (hist' = Append(hist, "OnLeaveMorphism") /\ Len(stack) # 1) =>
            (err' = ErrBadDefinition /\ machines' = machines /\ rules' = rules) ]_vars

C8_Witness ==
    /\ LastCall = "OnLeaveMorphism" /\ PrevCall = "OnEnterSeq"
    /\ Len(stack) = 2 /\ bus = NIL
    /\ err = ErrBadDefinition /\ machines = <<>> /\ rules = <<>>

\* the payload of the node is of a kind its callback does not know
Unrecognized(c) ==
    \/ c.cb = "OnEnterMap"   /\ ~IsLambda(c.node.F)
    \/ c.cb = "OnEnterFrom"  /\ ~IsSource(c.node.Source)
    \/ c.cb = "OnEnterYield" /\ ~(IsQueue(c.node.Target) \/ IsEventBus(c.node.Target))

\* the error a callback returns for a payload it does not know
UnrecognizedError(c) ==
    CASE c.cb = "OnEnterMap"   -> ErrCompute
      [] c.cb = "OnEnterFrom"  -> ErrInput
      [] c.cb = "OnEnterYield" -> ErrReply

(* C9: OnEnterMap, OnEnterFrom and OnEnterYield on a payload of a kind they *)
(* do not know return their error, append no state and leave the stack, the *)
(* names, the input path and the captured event source as they were.        *)
C9_UnrecognizedPayload ==
    [][ (pc = "walk" /\ Len(todo) > 0 /\ Unrecognized(Head(todo))) =>
            (err' = UnrecognizedError(Head(todo)) /\ UNCHANGED ts) ]_vars

C9_Witness ==
    /\ pc = "panic" /\ err = ErrCompute /\ LastCall = "OnEnterMap"
    /\ Len(stack) = 2 /\ Len(stack[2]) = 1 /\ bus = "input"

(* C10: a compilation in which a callback fails is aborted there and       *)
(* creates no state machine and no rule (the builder holds one of each per  *)
(* earlier invocation that returned); the two are created together, by the  *)
(* OnLeaveMorphism that ends a traversal, with one level open and an event  *)
(* source captured.                                                         *)
C10_AbortOnFailure ==
    /\ err # NIL => pc = "panic"
    /\ pc = "panic" => (err # NIL /\ Len(machines) = Runs - 1 /\ Len(rules) = Runs - 1)
    /\ Len(machines) = Len(rules)
    /\ (Runs > 0 /\ Len(machines) = Runs) =>
          (pc = "done" /\ LastCall = "OnLeaveMorphism" /\ Len(stack) = 1 /\ bus # NIL)

C10_Witness ==
    /\ pc = "panic" /\ err = ErrReply
    /\ Len(stack) = 1 /\ Len(stack[1]) = 2
    /\ machines = <<>> /\ rules = <<>>

(* C11: the rule of a compiled pipeline is filtered on exactly the          *)
(* categories From was given when it was given any, and on the single name  *)
(* of the payload type of From otherwise.                                   *)
C11_TriggerFilter ==
    pc = "done" =>
        LET from == Root(m.levels).Seq[1]
        IN  /\ Len(rules) = 1
            /\ rules[1].EventPattern.DetailType =
                  (IF from.Source.cat # <<>> THEN from.Source.cat ELSE << from.Type >>)

C11_Witness ==
    /\ pc = "done" /\ Len(rules) = 1
    /\ Root(m.levels).Seq[1].Source.cat = <<"Cat1", "Cat2">>
    /\ rules[1].EventPattern.DetailType = <<"Cat1", "Cat2">>

(* C12: OnEnterYield on an event bus appends a put-events state whose       *)
(* detail is the current input path, whose source is the one ToEventBus was *)
(* given and whose detail type is the first category ToEventBus was given,  *)
(* or the type name of the Yield node when it was given none; on a queue it *)
(* appends a send state whose body is the current input path.               *)
C12_YieldSend ==
    [][ (pc = "walk" /\ Len(todo) > 0 /\ Head(todo).cb = "OnEnterYield" /\ err' = NIL) =>
           LET y  == Head(todo).node
               st == stack'[Len(stack')][Len(stack'[Len(stack')])]
           IN  /\ Len(stack'[Len(stack')]) = Len(stack[Len(stack)]) + 1
               /\ IF IsEventBus(y.Target)
                  THEN /\ st.kind = "EventBridgePutEvents"
                       /\ st.Detail = args
                       /\ st.Source = y.Target.source
                       /\ st.EventBus = y.Target.bus
                       /\ st.DetailType = (IF y.Target.cat # <<>> THEN y.Target.cat[1]
                                                                  ELSE y.Type)
                  ELSE /\ st.kind = "SqsSendMessage"
                       /\ st.Queue = y.Target.q
                       /\ st.MessageBody = args ]_vars

C12_Witness ==
    /\ LastCall = "OnEnterYield" /\ err = NIL /\ PrevCall = "OnLeaveMap"
    /\ LastState.kind = "EventBridgePutEvents"
    /\ LastState.Detail = PathPayload
    /\ LastState.DetailType = "Cat1" /\ LastState.Source = "source"

(* C13 as stated: a second invocation of StateMachine on the same TypeStep  *)
(* value starts its traversal from a fresh state: one empty chain level,    *)
(* empty names, no event source captured.                                   *)
C13_FreshSecondRun ==
    (Runs = 2 /\ LastCall = "StateMachine") =>
        (stack = << <<>> >> /\ names = << <<>> >> /\ bus = NIL)

\* no Yield was entered in the compilation
NoYieldEntered == \A i \in 1..Len(hist) : hist[i] # "OnEnterYield"

(* C14 as stated: a compilation whose traversal entered no Yield fails and  *)
(* creates no state machine and no rule.                                    *)
C14_YieldRequired ==
    (Over /\ Runs = 1 /\ NoYieldEntered) =>
        (pc = "panic" /\ machines = <<>> /\ rules = <<>>)

\* no state of the chain is a send state
NoSendState(chain) ==
    \A i \in 1..Len(AllStates(chain)) :
        AllStates(chain)[i].kind \notin {"SqsSendMessage", "EventBridgePutEvents"}

(* C14 as amended: a pipeline without a Yield is compiled as well.  When    *)
(* the traversal entered no Yield, no callback failed and a state was       *)
(* emitted, OnLeaveMorphism creates the one state machine and the one rule; *)
(* the chain of the machine then holds no send state.                       *)
C14_CompiledWithoutYield ==
    (Runs = 1 /\ LastCall = "OnLeaveMorphism" /\ NoYieldEntered /\ Len(stack[1]) > 0) =>
        /\ pc = "done" /\ err = NIL
        /\ Len(machines) = 1 /\ machines[1].DefinitionBody = stack[1]
        /\ Len(rules) = 1 /\ rules[1].Target = 1
        /\ NoSendState(stack[1])

C14_Witness ==
    /\ Runs = 1 /\ pc = "done" /\ NoYieldEntered
    /\ Len(machines) = 1 /\ Len(rules) = 1
    /\ Len(stack[1]) = 2 /\ stack[1][2].kind = "Map"

(* C15 as stated: when SeqConcurrency is set in the properties, no ForEach  *)
(* state of the compilation has a MaxConcurrency above it.                  *)
C15_SeqConcurrencyBounds ==
    (pc = "done" /\ props.SeqConcurrency # <<>>) =>
        LET bounds == ForEachBounds(stack[1])
        IN  \A i \in 1..Len(bounds) : bounds[i] <= props.SeqConcurrency[1]

(* C16 as stated: the first child of every Seq node the traversal of a      *)
(* pipeline of the algebra enters or leaves is a Map node of a lambda.      *)
C16_SeqStartsWithMap ==
    (pc = "walk" /\ ~m.foreign /\ Len(todo) > 0
        /\ Head(todo).cb \in {"OnEnterSeq", "OnLeaveSeq"}) =>
        LET n == Head(todo).node
        IN  /\ Len(n.Seq) > 0
            /\ n.Seq[1].kind = "Map"
            /\ IsLambda(n.Seq[1].F)

\* the lambda of the scope of the given identifier
Fn(id) == CHOOSE f \in Lambdas : f.id = <<id>>

\* the pipeline of the example: From, Join(A), Join(B), Lift(C), Lift(D),
\* ToQueue(reply), where A and D return a value and B and C a list
ScenarioAst ==
    AstSeq(<< AstFrom(TypeName(0), [kind |-> "source", cat |-> <<>>, bus |-> "input"]),
              AstMap(JoinBinding(Fn("A"))),
              AstMap(JoinBinding(Fn("B"))),
              AstSeq(<< AstMap(LiftBinding(Fn("C"))),
                        AstSeq(<< AstMap(LiftBinding(Fn("D"))),
                                  AstYield(TypeName(0), [kind |-> "queue", q |-> "reply"]) >>) >>) >>)

\* an invoke state of the lambda with one catch branch to the queue
InvokeWithCatch(st, fn, queue) ==
    /\ st.kind = "LambdaInvoke" /\ st.LambdaFunction = <<fn>>
    /\ Len(st.Catch) = 1 /\ ForwardAndFail(st.Catch[1], queue)

(* C17: the example pipeline, compiled with the dead-letter queue reply,    *)
(* gives one rule filtered on the name of the event type and a chain of two *)
(* invoke states and one ForEach; the ForEach holds the invoke state of C   *)
(* and a nested ForEach, which holds the invoke state of D and the one send *)
(* state, to the queue reply; the four invoke states catch to reply.        *)
C17_Scenario ==
    (pc = "done" /\ Root(m.levels) = ScenarioAst /\ DeadLetterQueue = "reply") =>
        LET top    == stack[1]
            sub    == top[3].ItemProcessor
            nested == sub[2].ItemProcessor
            all    == AllStates(top)
        IN  /\ Len(machines) = 1 /\ machines[1].DefinitionBody = top
            /\ Len(rules) = 1 /\ rules[1].EventPattern.DetailType = << TypeName(0) >>
            /\ Len(top) = 3
            /\ InvokeWithCatch(top[1], "A", "reply")
            /\ InvokeWithCatch(top[2], "B", "reply")
            /\ top[3].kind = "Map" /\ Len(sub) = 2
            /\ InvokeWithCatch(sub[1], "C", "reply")
            /\ sub[2].kind = "Map" /\ Len(nested) = 2
            /\ InvokeWithCatch(nested[1], "D", "reply")
            /\ nested[2].kind = "SqsSendMessage" /\ nested[2].Queue = "reply"
            /\ Cardinality({ i \in 1..Len(all) : all[i].kind = "LambdaInvoke" }) = 4
            /\ Cardinality({ i \in 1..Len(all) : all[i].kind = "SqsSendMessage" }) = 1
            /\ Cardinality({ i \in 1..Len(all) : all[i].kind = "Map" }) = 2

C17_Witness ==
    /\ pc = "done" /\ Root(m.levels) = ScenarioAst /\ DeadLetterQueue = "reply"
    /\ Len(machines) = 1 /\ Len(stack[1]) = 3

(* C18: an OnLeaveSeq that returns pops the innermost level and appends one *)
(* state to the level below it, a ForEach that reads its items from         *)
(* "$.Payload" whatever the current input path is and whose item processor  *)
(* is the popped chain; the states of the popped chain are appended nowhere *)
(* else and the other levels are left as they were.                         *)
C18_ForEachOfPoppedLevel ==
    [][ (pc = "walk" /\ Len(todo) > 0 /\ Head(todo).cb = "OnLeaveSeq" /\ err' = NIL) =>
           LET top   == Len(stack)
               below == stack'[top - 1]
               fe    == below[Len(below)]
           IN  /\ Len(stack') = top - 1
               /\ \A i \in 1..(top - 2) : stack'[i] = stack[i]
               /\ Len(below) = Len(stack[top - 1]) + 1
               /\ SubSeq(below, 1, Len(below) - 1) = stack[top - 1]
               /\ fe.kind = "Map"
               /\ fe.ItemsPath = PathPayload
               /\ fe.ItemProcessor = stack[top] ]_vars

C18_Witness ==
    /\ LastCall = "OnLeaveSeq" /\ PrevCall = "OnLeaveSeq" /\ err = NIL
    /\ Len(stack) = 1
    /\ LastState.kind = "Map" /\ LastState.ItemsPath = PathPayload
    /\ Len(LastState.ItemProcessor) = 2
    /\ LastState.ItemProcessor[2].kind = "Map"

\* the OnEnterSeq and the OnLeaveSeq calls among the first k of the history
Enters(k) == Cardinality({ i \in 1..k : hist[i] = "OnEnterSeq" })
Leaves(k) == Cardinality({ i \in 1..k : hist[i] = "OnLeaveSeq" })

\* at no point of the history did the OnLeaveSeq calls outnumber the OnEnterSeq calls
NeverOutnumbered == \A k \in 1..Len(hist) : Leaves(k) <= Enters(k)

(* C20: after every sequence of callbacks that returned, in which the       *)
(* OnLeaveSeq calls never outnumbered the OnEnterSeq calls before them, the *)
(* stack and the names have the same length, one more than the number of    *)
(* Seq levels open, so there is an innermost chain to append to.            *)
C20_StackDiscipline ==
    (NeverOutnumbered /\ err \notin Panics) =>
        /\ Len(stack) = Len(names)
        /\ Len(stack) = 1 + Enters(Len(hist)) - Leaves(Len(hist))
        /\ Len(stack) >= 1

C20_Witness ==
    /\ hist = << "OnEnterSeq", "OnEnterMap", "OnLeaveSeq" >> /\ err = NIL
    /\ Len(stack) = 1 /\ Len(names) = 1
    /\ Len(stack[1]) = 1 /\ stack[1][1].kind = "Map"

\* the callback the traversal makes next
NextCall(cb) == pc = "walk" /\ Len(todo) > 0 /\ Head(todo).cb = cb

(* C21: OnEnterSeq appends one empty chain to the stack and one empty       *)
(* string to the names, sets the input path to "$" and leaves the levels    *)
(* open before it, their names and the captured event source and pattern    *)
(* as they were; the state emitted by the callback that follows it reads    *)
(* its input from "$".                                                      *)
C21_EnterSeqFrame ==
    [][ /\ NextCall("OnEnterSeq") =>
              /\ stack' = Append(stack, <<>>)
              /\ names' = Append(names, <<>>)
              /\ args' = PathRoot
              /\ err' = NIL
              /\ UNCHANGED <<bus, eventPattern, DeadLetterQueue, machines, rules>>
        /\ (LastCall = "OnEnterSeq" /\ err' = NIL
               /\ (NextCall("OnEnterMap") \/ NextCall("OnEnterYield"))) =>
              /\ Len(stack') = Len(stack)
              /\ stack'[Len(stack)] = << stack'[Len(stack)][1] >>
              /\ InputOf(stack'[Len(stack)][1]) = PathRoot ]_vars

C21_Witness ==
    /\ Emitted /\ LastCall = "OnEnterMap" /\ PrevCall = "OnEnterSeq"
    /\ Len(stack) = 2 /\ Len(stack[1]) = 1
    /\ InputOf(stack[1][1]) = PathDetail
    /\ stack[2] = << LastState >> /\ InputOf(LastState) = PathRoot
    /\ bus = "input"

\* the identifiers of the states of a chain, in order, as one string; the states
\* of the catch branches and of the item processors are not states of the chain
RECURSIVE ConcatIds(_)
ConcatIds(chain) ==
    IF Len(chain) = 0 THEN <<>> ELSE Head(chain).Id \o ConcatIds(Tail(chain))

(* C22: the ForEach an OnLeaveSeq builds is named "Seq" followed by the     *)
(* eight hexadecimal digits of the digest of the identifiers, in order, of  *)
(* exactly the states appended at the popped level (invoke, send and nested *)
(* ForEach states, not those of catch branches), and that name is appended  *)
(* to the names of the enclosing level.                                     *)
C22_FanOutName ==
    [][ (NextCall("OnLeaveSeq") /\ err' = NIL) =>
           LET top   == Len(stack)
               below == stack'[top - 1]
               fe    == below[Len(below)]
           IN  /\ fe.Id = <<"Seq">> \o Sha256Hex8(ConcatIds(stack[top]))
               /\ Len(fe.Id) = 9
               /\ Len(names') = top - 1
               /\ names'[top - 1] = names[top - 1] \o fe.Id
               /\ \A i \in 1..(top - 2) : names'[i] = names[i] ]_vars

C22_Witness ==
    /\ LastCall = "OnLeaveSeq" /\ err = NIL /\ DeadLetterQueue = "reply"
    /\ LastState.kind = "Map" /\ Len(LastState.ItemProcessor) = 2
    /\ LastState.ItemProcessor[1].kind = "LambdaInvoke"
    /\ Len(LastState.ItemProcessor[1].Catch) = 1
    /\ LastState.ItemProcessor[2].kind = "Map"
    /\ LastState.Id = <<"Seq">> \o Sha256Hex8(ConcatIds(LastState.ItemProcessor))
    /\ names[Len(names)] = ConcatIds(stack[Len(stack)])

\* the chain is the states of the nodes, in the order of the nodes, each Seq
\* with the chain of its own nodes as item processor
RECURSIVE ChainMatches(_, _)
ChainMatches(chain, nodes) ==
    /\ Len(chain) = Len(nodes)
    /\ \A i \in 1..Len(nodes) :
          /\ chain[i].Id = NodeId(nodes[i])
          /\ nodes[i].kind = "Seq" =>
                (chain[i].kind = "Map" /\ ChainMatches(chain[i].ItemProcessor, nodes[i].Seq))

(* C23: every step of a compilation leaves each chain of the stack as it    *)
(* was or extends it by one state at its tail, and the chains of a finished *)
(* compilation hold the states of the nodes in the order they were visited: *)
(* the first state of the outermost chain is that of the node after From.   *)
C23_ChainOrder ==
    [][ Runs = 1 =>
          /\ \A i \in 1..Len(stack') :
                i <= Len(stack) =>
                   /\ Len(stack'[i]) \in { Len(stack[i]), Len(stack[i]) + 1 }
                   /\ SubSeq(stack'[i], 1, Len(stack[i])) = stack[i]
          /\ pc' = "done" =>
                /\ ChainMatches(stack'[1], Tail(Root(m.levels).Seq))
                /\ stack'[1][1].Id = NodeId(Root(m.levels).Seq[2]) ]_vars

C23_Witness ==
    /\ pc = "done" /\ Len(stack[1]) = 3
    /\ stack[1][1].kind = "LambdaInvoke" /\ stack[1][1].Id = NodeId(Root(m.levels).Seq[2])
    /\ stack[1][2].kind = "Map" /\ Len(stack[1][2].ItemProcessor) = 1
    /\ stack[1][3].kind = "SqsSendMessage"

(* C24 as stated: the state before a ForEach in the chain OnLeaveSeq        *)
(* appends it to is an invoke state.                                        *)
C24_ForEachAfterInvoke ==
    (Runs = 1 /\ ~m.foreign /\ LastCall = "OnLeaveSeq" /\ err = NIL) =>
        LET chain == stack[Len(stack)]
        IN  /\ Len(chain) >= 2
            /\ chain[Len(chain) - 1].kind = "LambdaInvoke"

(* C25: when the first child of a Seq is not a Map of a lambda, OnLeaveSeq  *)
(* returns no error and builds a ForEach of MaxConcurrency 1; when it is,   *)
(* the bound is the concurrency of that lambda, whatever the concurrency of *)
(* the other Maps of the Seq and of the Seqs nested in it.                  *)
C25_ConcurrencyFallback ==
    [][ (NextCall("OnLeaveSeq") /\ Runs = 1 /\ Len(Head(todo).node.Seq) > 0) =>
           LET first == Head(todo).node.Seq[1]
               below == stack'[Len(stack) - 1]
               fe    == below[Len(below)]
           IN  /\ err' = NIL
               /\ fe.kind = "Map"
               /\ fe.MaxConcurrency = (IF first.kind = "Map" /\ IsLambda(first.F)
                                       THEN first.F.concurency ELSE 1) ]_vars

C25_Witness ==
    /\ LastCall = "OnLeaveSeq" /\ err = NIL
    /\ LastState.kind = "Map" /\ LastState.MaxConcurrency = 1
    /\ LastState.ItemProcessor[1].kind = "Map"
    /\ LastState.ItemProcessor[1].MaxConcurrency = 2

\* the states of the given kinds of a chain, nested item processors included
CountStates(chain, kinds) ==
    Cardinality({ i \in 1..Len(AllStates(chain)) : AllStates(chain)[i].kind \in kinds })

\* the calls of a callback in the history
CountCalls(cb) == Cardinality({ i \in 1..Len(hist) : hist[i] = cb })

(* C26: the artifact of a compilation that returned holds as many invoke    *)
(* states as OnEnterMap was called, as many ForEach states as OnLeaveSeq    *)
(* was called and as many send states as OnEnterYield was called, over the  *)
(* outermost chain and all nested item processors.                          *)
C26_StateConservation ==
    (pc = "done" /\ Runs = 1) =>
        LET body == machines[1].DefinitionBody
        IN  /\ CountStates(body, {"LambdaInvoke"}) = CountCalls("OnEnterMap")
            /\ CountStates(body, {"Map"}) = CountCalls("OnLeaveSeq")
            /\ CountStates(body, {"SqsSendMessage", "EventBridgePutEvents"})
                  = CountCalls("OnEnterYield")
            /\ Len(AllStates(body)) = CountCalls("OnEnterMap") + CountCalls("OnLeaveSeq")
                                         + CountCalls("OnEnterYield")

C26_Witness ==
    /\ pc = "done" /\ Runs = 1
    /\ CountCalls("OnEnterMap") = 3 /\ CountCalls("OnLeaveSeq") = 2
    /\ CountCalls("OnEnterYield") = 1
    /\ CountStates(machines[1].DefinitionBody, {"LambdaInvoke"}) = 3
    /\ CountStates(machines[1].DefinitionBody, {"Map"}) = 2

\* a chain without the catch branches of its invoke states, item processors included
RECURSIVE EraseCatch(_)
EraseCatch(chain) ==
    [i \in 1..Len(chain) |->
        IF chain[i].kind = "LambdaInvoke" THEN [chain[i] EXCEPT !.Catch = <<>>]
        ELSE IF chain[i].kind = "Map"
        THEN [chain[i] EXCEPT !.ItemProcessor = EraseCatch(chain[i].ItemProcessor)]
        ELSE chain[i]]

\* the fields of the builder and the artifacts built, catch branches left out
PlainView ==
    [stack        |-> [i \in 1..Len(stack) |-> EraseCatch(stack[i])],
     names        |-> names,
     args         |-> args,
     bus          |-> bus,
     eventPattern |-> eventPattern,
     machines     |-> [i \in 1..Len(machines) |-> EraseCatch(machines[i].DefinitionBody)],
     rules        |-> rules,
     err          |-> err]

\* a callback of a builder that has no dead-letter queue, as a function of
\* the fields of the builder: v after the callback call.cb on call.node
PlainCallback(v, call) ==
    LET node  == call.node
        top   == Len(v.stack)
        scope == UNION { ChainIds(v.stack[i]) : i \in 1..top }
        fail(e) == [v EXCEPT !.err = e]
        put(f)  == [v EXCEPT !.stack = AppendStack(v.stack, f),
                             !.names = AppendNames(v.names, f),
                             !.err = NIL]
    IN  CASE call.cb = "OnLeaveMorphism" ->
                IF top # 1 THEN fail(ErrBadDefinition)
                ELSE IF v.bus = NIL THEN fail(ErrNoSource)
                ELSE IF Len(v.stack[1]) = 0 THEN fail(PanicNil)
                ELSE IF Len(v.machines) # 0 THEN fail(PanicDuplicate)
                ELSE [v EXCEPT !.machines = Append(v.machines, v.stack[1]),
                               !.rules = Append(v.rules,
                                    [Id |-> "Rule", EventBus |-> v.bus,
                                     EventPattern |-> v.eventPattern,
                                     Target |-> Len(v.machines) + 1]),
                               !.err = NIL]
          [] call.cb = "OnEnterSeq" ->
                [v EXCEPT !.stack = Append(v.stack, <<>>),
                          !.names = Append(v.names, <<>>),
                          !.args = PathRoot,
                          !.err = NIL]
          [] call.cb = "OnLeaveSeq" ->
                IF Len(node.Seq) = 0 THEN fail(PanicIndex)
                ELSE IF SeqId(v.names[top]) \in scope THEN fail(PanicDuplicate)
                ELSE IF Len(v.stack[top]) = 0 THEN fail(PanicNil)
                ELSE IF top = 1
                THEN [v EXCEPT !.stack = <<>>, !.names = <<>>, !.err = PanicIndex]
                ELSE LET foreach == MapState(SeqId(v.names[top]), PathPayload,
                                             SeqConcurrency(node), v.stack[top])
                     IN  [v EXCEPT !.stack = AppendStack(SubSeq(v.stack, 1, top - 1), foreach),
                                   !.names = AppendNames(SubSeq(v.names, 1, top - 1), foreach),
                                   !.args = PathRoot,
                                   !.err = NIL]
          [] call.cb = "OnEnterMap" ->
                IF ~IsLambda(node.F) THEN fail(ErrCompute)
                ELSE IF (<<"Map">> \o node.F.f) \in scope THEN fail(PanicDuplicate)
                ELSE put(LambdaInvoke(<<"Map">> \o node.F.f, v.args, node.F.f, <<>>))
          [] call.cb = "OnLeaveMap" ->
                [v EXCEPT !.args = PathPayload, !.err = NIL]
          [] call.cb = "OnEnterFrom" ->
                IF ~IsSource(node.Source) THEN fail(ErrInput)
                ELSE [v EXCEPT !.bus = node.Source.bus,
                               !.eventPattern = [DetailType |-> DetailTypeOf(node)],
                               !.args = PathDetail,
                               !.err = NIL]
          [] call.cb = "OnEnterYield" ->
                IF ~(IsQueue(node.Target) \/ IsEventBus(node.Target)) THEN fail(ErrReply)
                ELSE IF <<"Sink">> \in scope THEN fail(PanicDuplicate)
                ELSE IF IsQueue(node.Target)
                THEN put(SqsSendMessage(<<"Sink">>, node.Target.q, v.args))
                ELSE put(EventBridgePutEvents(<<"Sink">>, v.args, YieldKind(node),
                                              node.Target.source, node.Target.bus))
          [] OTHER -> fail(NIL)

\* no state of the chains is a forward-to-dead-letter or a Fail state
NoCatchState(stk) ==
    LET held == HeldStates(stk)
    IN  \A i \in 1..Len(held) :
            /\ held[i].kind # "Fail"
            /\ Head(held[i].Id) \notin {"Try", "Err"}

(* C27: with or without a dead-letter queue, every callback of a            *)
(* compilation takes the builder, catch branches left out, to the fields    *)
(* the same callback of a builder without dead-letter queue gives: same     *)
(* chains, names, input paths, ForEach names and bounds, errors; and no     *)
(* forward-to-dead-letter or Fail state is ever a state of a chain.         *)
C27_DeadLetterOnlyInCatch ==
    [][ (pc = "walk" /\ todo # <<>>) =>
           /\ PlainView' = PlainCallback(PlainView, Head(todo))
           /\ NoCatchState(stack') ]_vars

C27_Witness ==
    /\ DeadLetterQueue = "reply" /\ pc = "done"
    /\ Len(stack[1]) >= 2
    /\ stack[1][1].kind = "LambdaInvoke" /\ Len(stack[1][1].Catch) = 1
    /\ stack[1][2].kind = "Map"
    /\ Len(stack[1][2].ItemProcessor[1].Catch) = 1
    /\ PlainView.stack # stack
    /\ PlainView.machines[1] # machines[1].DefinitionBody

=============================================================================
